---- MODULE Spec2Model ----
(***************************************************************************)
(* Model of the Meteor method layer of the task/project management app:    *)
(* imports/api/projects/methods.ts, imports/api/methods/tasks.methods.ts   *)
(* and the aggregations.* methods, over the projects, tasks and            *)
(* activityLogs collections.                                               *)
(*                                                                         *)
(* A method call runs to completion as one action and leaves the record of *)
(* the call and of its outcome in `last`; Return hands the result to the   *)
(* client, after which the next call may start.  A call that throws is an  *)
(* action too: it records the error kind and leaves the collections alone  *)
(* exactly when every throw of the handler precedes its first write.       *)
(*                                                                         *)
(* The database starts as server/fixtures.ts seeds it, scaled down to one  *)
(* project and two of its tasks, with one more project its owner has just  *)
(* created through projects.insert and that has no task yet.               *)
(*                                                                         *)
(* Spec is the method layer with calls running one at a time.  StatsSpec,  *)
(* UserStatsSpec and TimelineSpec apply the read-only aggregations to      *)
(* every small tasks collection or activity log.  ConcurrentSpec runs two  *)
(* calls at once, interleaved at their database operations.                *)
(*                                                                         *)
(* Abstractions: Date values (createdAt, updatedAt, dueDate) are left out, *)
(* completedAt is kept as present/absent; name, title and description are  *)
(* kept as the class their length checks decide; tags are payload no       *)
(* method branches on.  Arguments are well typed (check() passes).  An     *)
(* optional value is a sequence of length 0 or 1.  Document ids are drawn  *)
(* from counters, so an id is never used twice.                            *)
(***************************************************************************)
EXTENDS Integers, Sequences, FiniteSets, TLC

\* ---------------------------------------------------------------- bounds
\* A call of a method that writes to the activity log, or of an aggregation,
\* starts only while the log is shorter than MaxLog; projects.updateTaskCounters,
\* which never logs, may be called at any time.
MaxLog == 5

\* ----------------------------------------------------------------- users
Alice == "alice"
Bob == "bob"
David == "david"
Emma == "emma"
Gina == "gina"
Users == {Alice, Bob, David, Emma, Gina}

Role(u) ==
  CASE u = Alice -> "admin"
    [] u = Bob -> "manager"
    [] u = David -> "member"
    [] u = Emma -> "member"
    [] OTHER -> "none"

Null == "null"
Undefined == "undefined"
EmptyId == ""
Ghost == "ghost"

Callers == Users \cup {Null}

None == << >>
Some(v) == << v >>
IsSome(o) == o # << >>
Val(o) == o[1]

NoError == "none"
NotAuthorized == "not-authorized"
NotFound == "not-found"
ValidationError == "validation-error"

VARIABLES projects, tasks, activityLogs, nextProjectId, nextTaskId, last, calls

vars == << projects, tasks, activityLogs, nextProjectId, nextTaskId, last, calls >>
db == << projects, tasks, activityLogs, nextProjectId, nextTaskId >>

\* Ids a client can name: those handed out so far and one that names nothing.
ProjectIds == 1..nextProjectId
TaskIds == 1..nextTaskId

Idle == [method |-> "idle"]
LogHasRoom == Len(activityLogs) < MaxLog

\* ------------------------------------------------------------- helpers
Includes(seq, x) == \E i \in DOMAIN seq : seq[i] = x

Truthy(id) == id \notin {Undefined, Null, EmptyId}

UserExists(id) == id \in Users

Pull(seq, x) == SelectSeq(seq, LAMBDA y : y # x)

AddToSet(seq, x) == IF Includes(seq, x) THEN seq ELSE Append(seq, x)

\* Meteor.users.find({_id: {$in: ids}}).count()
CountUsersIn(ids) == Cardinality({u \in Users : Includes(ids, u)})

Remove(coll, id) == [k \in DOMAIN coll \ {id} |-> coll[k]]

CountTasks(T, pid) == Cardinality({t \in DOMAIN T : T[t].projectId = pid})

CountDoneTasks(T, pid) ==
  Cardinality({t \in DOMAIN T : T[t].projectId = pid /\ T[t].status = "done"})

LogEntry(u, action, type, id) ==
  [userId |-> u, action |-> action, entityType |-> type, entityId |-> id]

\* logActivity on a log that keeps its newest entries only
logActivityDropOldest(log, u, action, pid) ==
  Append(Tail(log), LogEntry(u, action, "project", pid))

logActivity(log, u, action, pid) == Append(log, LogEntry(u, action, "project", pid))

logTaskActivity(log, u, action, tid) == Append(log, LogEntry(u, action, "task", tid))

\* canModifyProject letting the members of the team in as well
canModifyProjectOrOnTeam(userId, project) ==
  /\ userId # Null
  /\ UserExists(userId)
  /\ \/ Role(userId) = "admin"
     \/ project.ownerId = userId
     \/ Includes(project.teamMemberIds, userId)

\* ---------------------------------------------------------- permissions
canModifyProject(userId, project) ==
  /\ userId # Null
  /\ UserExists(userId)
  /\ \/ Role(userId) = "admin"
     \/ project.ownerId = userId

canModifyTask(userId, task) ==
  /\ userId # Null
  /\ UserExists(userId)
  /\ \/ Role(userId) = "admin"
     \/ task.createdBy = userId
     \/ /\ task.projectId \in DOMAIN projects
        /\ projects[task.projectId].ownerId = userId
     \/ task.assignedToId = userId

canViewProjectTasks(userId, projectId) ==
  /\ userId # Null
  /\ UserExists(userId)
  /\ \/ Role(userId) = "admin"
     \/ /\ projectId \in DOMAIN projects
        /\ \/ projects[projectId].ownerId = userId
           \/ Includes(projects[projectId].teamMemberIds, userId)

isOnTeam(project, userId) ==
  \/ project.ownerId = userId
  \/ Includes(project.teamMemberIds, userId)

\* projects.updateTaskCounters recounting the tasks but not the done ones
updateTaskCountersTotalOnly(P, T, pid) ==
  IF pid \in DOMAIN P
    THEN [P EXCEPT ![pid].metadata.totalTasks = CountTasks(T, pid)]
    ELSE P

\* projects.updateTaskCounters as a function of the collections it reads
updateTaskCounters(P, T, pid) ==
  IF pid \in DOMAIN P
    THEN [P EXCEPT ![pid].metadata.totalTasks = CountTasks(T, pid),
                   ![pid].metadata.completedTasks = CountDoneTasks(T, pid)]
    ELSE P

Call(method, userId, args, error) ==
  [method |-> method, userId |-> userId, args |-> args, error |-> error]

\* ----------------------------------------------------------------- Init
\* seedDatabase(): the project of manager1 with its team, a task in progress
\* and a completed task, both assigned to member1, the first created by
\* manager1 and the second by member1; the counters recomputed from the tasks;
\* the matching activity log entries.
SeedProject ==
  [ownerId |-> Bob,
   teamMemberIds |-> << David, Emma >>,
   status |-> "active",
   metadata |-> [totalTasks |-> 2, completedTasks |-> 1, priority |-> "high"]]

SeedTasks ==
  (1 :> [projectId |-> 1, assignedToId |-> David, status |-> "in_progress",
         priority |-> "high", estimatedHours |-> Some(20), actualHours |-> Some(15),
         createdBy |-> Bob, completedAt |-> FALSE])
  @@
  (2 :> [projectId |-> 1, assignedToId |-> David, status |-> "done",
         priority |-> "high", estimatedHours |-> Some(8), actualHours |-> Some(10),
         createdBy |-> David, completedAt |-> TRUE])

\* the document projects.insert stores for manager1 with one team member
InsertedProject ==
  [ownerId |-> Bob,
   teamMemberIds |-> << Emma >>,
   status |-> "active",
   metadata |-> [totalTasks |-> 0, completedTasks |-> 0, priority |-> "medium"]]

SeedLogs ==
  << LogEntry(Bob, "create", "project", 1),
     LogEntry(Bob, "assign", "task", 1),
     LogEntry(David, "complete", "task", 2),
     LogEntry(Bob, "create", "project", 2) >>

Init ==
  /\ projects = (1 :> SeedProject) @@ (2 :> InsertedProject)
  /\ tasks = SeedTasks
  /\ activityLogs = SeedLogs
  /\ nextProjectId = 3
  /\ nextTaskId = 3
  /\ last = Idle
  /\ calls = << >>

\* ------------------------------------------------------ projects.insert
TeamInputs == { << >>, << Emma >>, << Emma, Emma >>, << Ghost >> }

ProjectInsertInputs ==
  [validName : BOOLEAN, teamMemberIds : TeamInputs, status : {"active"}]

\* projects.insert without the count of the users the team names
ProjectsInsertErrorNoTeamCount(c, data) ==
  IF c = Null THEN NotAuthorized
  ELSE IF Role(c) \in {"none", "member"} THEN NotAuthorized
  ELSE IF ~data.validName THEN ValidationError
  ELSE NoError
\* projects.insert with a role check that turns away the role 'member' only
ProjectsInsertErrorMemberOnly(c, data) ==
  IF c = Null THEN NotAuthorized
  ELSE IF Role(c) = "member" THEN NotAuthorized
  ELSE IF ~data.validName THEN ValidationError
  ELSE IF CountUsersIn(data.teamMemberIds) # Len(data.teamMemberIds) THEN ValidationError
  ELSE NoError

ProjectsInsertError(c, data) ==
  IF c = Null THEN NotAuthorized
  ELSE IF Role(c) \in {"none", "member"} THEN NotAuthorized
  ELSE IF ~data.validName THEN ValidationError
  ELSE IF CountUsersIn(data.teamMemberIds) # Len(data.teamMemberIds) THEN ValidationError
  ELSE NoError

ProjectsInsert(c, data) ==
  LET err == ProjectsInsertError(c, data)
      projectId == nextProjectId
      project == [ownerId |-> c,
                  teamMemberIds |-> data.teamMemberIds,
                  status |-> data.status,
                  metadata |-> [totalTasks |-> 0, completedTasks |-> 0,
                                priority |-> "medium"]]
  IN /\ last = Idle
     /\ LogHasRoom
     /\ IF err = NoError
          THEN /\ projects' = projects @@ (projectId :> project)
               /\ nextProjectId' = nextProjectId + 1
               /\ activityLogs' = logActivity(activityLogs, c, "create", projectId)
               /\ UNCHANGED << tasks, nextTaskId >>
          ELSE UNCHANGED db
     /\ UNCHANGED calls
     /\ last' = Call("projects.insert", c, << data >>, err)

AddMemberInputs == {David, Gina, Ghost}
RemoveMemberInputs == {Bob, David}

\* ------------------------------------------------------ projects.update
NoProjectUpdates == [name |-> None, status |-> None, teamMemberIds |-> None, priority |-> None]

ProjectUpdateInputs ==
  { [NoProjectUpdates EXCEPT !.name = Some("too short")],
    [NoProjectUpdates EXCEPT !.status = Some("completed")],
    [NoProjectUpdates EXCEPT !.priority = Some("low")],
    [NoProjectUpdates EXCEPT !.teamMemberIds = Some(<< Emma >>)],
    [NoProjectUpdates EXCEPT !.teamMemberIds = Some(<< Emma, Emma >>)] }

ProjectsUpdateError(c, projectId, updates) ==
  IF c = Null THEN NotAuthorized
  ELSE IF projectId \notin DOMAIN projects THEN NotFound
  ELSE IF ~canModifyProject(c, projects[projectId]) THEN NotAuthorized
  ELSE IF IsSome(updates.name) /\ Val(updates.name) # "valid" THEN ValidationError
  ELSE IF /\ IsSome(updates.teamMemberIds)
          /\ CountUsersIn(Val(updates.teamMemberIds)) # Len(Val(updates.teamMemberIds))
       THEN ValidationError
  ELSE NoError

ApplyProjectUpdates(project, updates) ==
  [project EXCEPT
     !.status = IF IsSome(updates.status) THEN Val(updates.status) ELSE @,
     !.teamMemberIds = IF IsSome(updates.teamMemberIds) THEN Val(updates.teamMemberIds) ELSE @,
     !.metadata.priority = IF IsSome(updates.priority) THEN Val(updates.priority) ELSE @]

ProjectsUpdate(c, projectId, updates) ==
  LET err == ProjectsUpdateError(c, projectId, updates)
  IN /\ last = Idle
     /\ LogHasRoom
     /\ IF err = NoError
          THEN /\ projects' = [projects EXCEPT
                                 ![projectId] = ApplyProjectUpdates(@, updates)]
               /\ activityLogs' = logActivity(activityLogs, c, "update", projectId)
               /\ UNCHANGED << tasks, nextProjectId, nextTaskId >>
          ELSE UNCHANGED db
     /\ UNCHANGED calls
     /\ last' = Call("projects.update", c, << projectId, updates >>, err)

\* projects.remove counting the project's tasks before the soft delete too
ProjectsRemoveErrorCountAlways(c, projectId, hard) ==
  IF c = Null THEN NotAuthorized
  ELSE IF projectId \notin DOMAIN projects THEN NotFound
  ELSE IF ~canModifyProject(c, projects[projectId]) THEN NotAuthorized
  ELSE IF CountTasks(tasks, projectId) > 0 THEN ValidationError
  ELSE NoError

\* projects.remove without the count of the project's tasks
ProjectsRemoveErrorNoTaskCount(c, projectId, hard) ==
  IF c = Null THEN NotAuthorized
  ELSE IF projectId \notin DOMAIN projects THEN NotFound
  ELSE IF ~canModifyProject(c, projects[projectId]) THEN NotAuthorized
  ELSE NoError

\* ------------------------------------------------------ projects.remove
ProjectsRemoveError(c, projectId, hard) ==
  IF c = Null THEN NotAuthorized
  ELSE IF projectId \notin DOMAIN projects THEN NotFound
  ELSE IF ~canModifyProject(c, projects[projectId]) THEN NotAuthorized
  ELSE IF hard /\ CountTasks(tasks, projectId) > 0 THEN ValidationError
  ELSE NoError

\* projects.remove deleting before it counts the project's tasks
ProjectsRemoveDeleteFirst(c, projectId, hard) ==
  LET err == ProjectsRemoveError(c, projectId, hard)
      permitted == /\ c # Null
                   /\ projectId \in DOMAIN projects
                   /\ canModifyProject(c, projects[projectId])
  IN /\ last = Idle
     /\ LogHasRoom
     /\ IF permitted /\ hard
          THEN /\ projects' = Remove(projects, projectId)
               /\ IF err = NoError
                    THEN activityLogs' = logActivity(activityLogs, c, "delete", projectId)
                    ELSE UNCHANGED activityLogs
               /\ UNCHANGED << tasks, nextProjectId, nextTaskId >>
          ELSE IF err = NoError
          THEN /\ projects' = [projects EXCEPT ![projectId].status = "archived"]
               /\ activityLogs' = logActivity(activityLogs, c, "update", projectId)
               /\ UNCHANGED << tasks, nextProjectId, nextTaskId >>
          ELSE UNCHANGED db
     /\ UNCHANGED calls
     /\ last' = Call("projects.remove", c, << projectId, hard >>, err)

ProjectsRemove(c, projectId, hard) ==
  LET err == ProjectsRemoveError(c, projectId, hard)
  IN /\ last = Idle
     /\ LogHasRoom
     /\ IF err = NoError
          THEN /\ IF hard
                    THEN /\ projects' = Remove(projects, projectId)
                         /\ activityLogs' = logActivity(activityLogs, c, "delete", projectId)
                    ELSE /\ projects' = [projects EXCEPT ![projectId].status = "archived"]
                         /\ activityLogs' = logActivity(activityLogs, c, "update", projectId)
               /\ UNCHANGED << tasks, nextProjectId, nextTaskId >>
          ELSE UNCHANGED db
     /\ UNCHANGED calls
     /\ last' = Call("projects.remove", c, << projectId, hard >>, err)

\* ----------------------------------------------- projects.addTeamMember
ProjectsAddTeamMemberError(c, projectId, userIdToAdd) ==
  IF c = Null THEN NotAuthorized
  ELSE IF projectId \notin DOMAIN projects THEN NotFound
  ELSE IF ~canModifyProject(c, projects[projectId]) THEN NotAuthorized
  ELSE IF ~UserExists(userIdToAdd) THEN NotFound
  ELSE IF Includes(projects[projectId].teamMemberIds, userIdToAdd) THEN ValidationError
  ELSE NoError

ProjectsAddTeamMember(c, projectId, userIdToAdd) ==
  LET err == ProjectsAddTeamMemberError(c, projectId, userIdToAdd)
  IN /\ last = Idle
     /\ LogHasRoom
     /\ IF err = NoError
          THEN /\ projects' = [projects EXCEPT
                                 ![projectId].teamMemberIds = AddToSet(@, userIdToAdd)]
               /\ activityLogs' = logActivity(activityLogs, c, "update", projectId)
               /\ UNCHANGED << tasks, nextProjectId, nextTaskId >>
          ELSE UNCHANGED db
     /\ UNCHANGED calls
     /\ last' = Call("projects.addTeamMember", c, << projectId, userIdToAdd >>, err)

\* -------------------------------------------- projects.removeTeamMember
ProjectsRemoveTeamMemberError(c, projectId, userIdToRemove) ==
  IF c = Null THEN NotAuthorized
  ELSE IF projectId \notin DOMAIN projects THEN NotFound
  ELSE IF ~canModifyProject(c, projects[projectId]) THEN NotAuthorized
  ELSE IF projects[projectId].ownerId = userIdToRemove THEN ValidationError
  ELSE NoError

ProjectsRemoveTeamMember(c, projectId, userIdToRemove) ==
  LET err == ProjectsRemoveTeamMemberError(c, projectId, userIdToRemove)
  IN /\ last = Idle
     /\ LogHasRoom
     /\ IF err = NoError
          THEN /\ projects' = [projects EXCEPT
                                 ![projectId].teamMemberIds = Pull(@, userIdToRemove)]
               /\ activityLogs' = logActivity(activityLogs, c, "update", projectId)
               /\ UNCHANGED << tasks, nextProjectId, nextTaskId >>
          ELSE UNCHANGED db
     /\ UNCHANGED calls
     /\ last' = Call("projects.removeTeamMember", c, << projectId, userIdToRemove >>, err)

\* ------------------------------------------- projects.updateTaskCounters
ProjectsUpdateTaskCountersError(c, projectId) == NoError

\* the method never reads this.userId: the anonymous caller and one logged-in
\* caller stand for all
RecountCallers == {Null, Bob}

ProjectsUpdateTaskCounters(c, projectId) ==
  LET err == ProjectsUpdateTaskCountersError(c, projectId)
  IN /\ last = Idle
     /\ IF err = NoError
          THEN /\ projects' = updateTaskCounters(projects, tasks, projectId)
               /\ UNCHANGED << tasks, activityLogs, nextProjectId, nextTaskId >>
          ELSE UNCHANGED db
     /\ UNCHANGED calls
     /\ last' = Call("projects.updateTaskCounters", c, << projectId >>, err)

\* --------------------------------------------------------- tasks.insert
ValidTask == [title |-> "valid", assignedToId |-> Undefined, priority |-> "medium",
              estimatedHours |-> None]

TaskInsertInputs ==
  { ValidTask,
    [ValidTask EXCEPT !.title = "too short"],
    [ValidTask EXCEPT !.assignedToId = David],
    [ValidTask EXCEPT !.assignedToId = Gina],
    [ValidTask EXCEPT !.assignedToId = Ghost],
    [ValidTask EXCEPT !.assignedToId = EmptyId],
    [ValidTask EXCEPT !.estimatedHours = Some(0)] }

\* tasks.insert checking that the assignee exists but not that the assignee
\* is on the team of the project
TasksInsertErrorAnyUser(c, projectId, data) ==
  IF c = Null THEN NotAuthorized
  ELSE IF data.title # "valid" THEN ValidationError
  ELSE IF projectId \notin DOMAIN projects THEN NotFound
  ELSE IF ~canViewProjectTasks(c, projectId) THEN NotAuthorized
  ELSE IF Truthy(data.assignedToId) /\ ~UserExists(data.assignedToId) THEN NotFound
  ELSE IF IsSome(data.estimatedHours) /\ Val(data.estimatedHours) <= 0 THEN ValidationError
  ELSE NoError

TasksInsertError(c, projectId, data) ==
  IF c = Null THEN NotAuthorized
  ELSE IF data.title # "valid" THEN ValidationError
  ELSE IF projectId \notin DOMAIN projects THEN NotFound
  ELSE IF ~canViewProjectTasks(c, projectId) THEN NotAuthorized
  ELSE IF Truthy(data.assignedToId) /\ ~UserExists(data.assignedToId) THEN NotFound
  ELSE IF Truthy(data.assignedToId) /\ ~isOnTeam(projects[projectId], data.assignedToId)
       THEN ValidationError
  ELSE IF IsSome(data.estimatedHours) /\ Val(data.estimatedHours) <= 0 THEN ValidationError
  ELSE NoError

NewTask(c, projectId, data) ==
  [projectId |-> projectId,
   assignedToId |-> data.assignedToId,
   status |-> "todo",
   priority |-> data.priority,
   estimatedHours |-> data.estimatedHours,
   actualHours |-> None,
   createdBy |-> c,
   completedAt |-> FALSE]

TasksInsertLogs(c, taskId, data) ==
  << LogEntry(c, "create", "task", taskId) >>
  \o (IF Truthy(data.assignedToId) THEN << LogEntry(c, "assign", "task", taskId) >> ELSE << >>)

TasksInsert(c, projectId, data) ==
  LET err == TasksInsertError(c, projectId, data)
      taskId == nextTaskId
      inserted == tasks @@ (taskId :> NewTask(c, projectId, data))
  IN /\ last = Idle
     /\ LogHasRoom
     /\ IF err = NoError
          THEN /\ tasks' = inserted
               /\ nextTaskId' = nextTaskId + 1
               /\ projects' = updateTaskCounters(projects, inserted, projectId)
               /\ activityLogs' = activityLogs \o TasksInsertLogs(c, taskId, data)
               /\ UNCHANGED nextProjectId
          ELSE UNCHANGED db
     /\ UNCHANGED calls
     /\ last' = Call("tasks.insert", c, << projectId, data >>, err)

\* --------------------------------------------------------- tasks.update
NoTaskUpdates ==
  [title |-> None, description |-> None, status |-> None, priority |-> None,
   estimatedHours |-> None, actualHours |-> None, assignedToId |-> None]

TaskUpdateInputs ==
  { NoTaskUpdates,
    [NoTaskUpdates EXCEPT !.status = Some("done")],
    [NoTaskUpdates EXCEPT !.status = Some("todo")],
    [NoTaskUpdates EXCEPT !.priority = Some("low")],
    [NoTaskUpdates EXCEPT !.title = Some("too short")],
    [NoTaskUpdates EXCEPT !.actualHours = Some(-1)],
    [NoTaskUpdates EXCEPT !.assignedToId = Some(Emma)],
    [NoTaskUpdates EXCEPT !.assignedToId = Some(Gina)] }

\* Object.keys(updates)
Keys(updates) == {f \in DOMAIN updates : IsSome(updates[f])}

allowedFields == {"status", "actualHours", "description"}

TasksUpdateError(c, taskId, updates) ==
  IF c = Null THEN NotAuthorized
  ELSE IF taskId \notin DOMAIN tasks THEN NotFound
  ELSE
    LET task == tasks[taskId]
        isAssignee == task.assignedToId = c
        canFullyModify == canModifyTask(c, task)
        newAssignee == Val(updates.assignedToId)
    IN IF ~canFullyModify /\ ~isAssignee THEN NotAuthorized
       ELSE IF isAssignee /\ ~canFullyModify /\ Keys(updates) \ allowedFields # {}
            THEN NotAuthorized
       ELSE IF IsSome(updates.title) /\ Val(updates.title) # "valid" THEN ValidationError
       ELSE IF IsSome(updates.description) /\ Val(updates.description) # "valid"
            THEN ValidationError
       ELSE IF IsSome(updates.assignedToId) /\ newAssignee # Null
            THEN IF task.projectId \notin DOMAIN projects THEN NotFound
                 ELSE IF ~UserExists(newAssignee) THEN NotFound
                 ELSE IF ~isOnTeam(projects[task.projectId], newAssignee)
                      THEN ValidationError
                 ELSE NoError
       ELSE NoError

becomesDone(task, updates) == updates.status = Some("done") /\ task.status # "done"

leavesDone(task, updates) ==
  task.status = "done" /\ IsSome(updates.status) /\ Val(updates.status) # "done"

\* ApplyTaskUpdates without the $unset of completedAt on leaving done
ApplyTaskUpdatesKeepCompletedAt(task, updates) ==
  [task EXCEPT
     !.status = IF IsSome(updates.status) THEN Val(updates.status) ELSE @,
     !.priority = IF IsSome(updates.priority) THEN Val(updates.priority) ELSE @,
     !.estimatedHours = IF IsSome(updates.estimatedHours) THEN updates.estimatedHours ELSE @,
     !.actualHours = IF IsSome(updates.actualHours) THEN updates.actualHours ELSE @,
     !.assignedToId = IF IsSome(updates.assignedToId) THEN Val(updates.assignedToId) ELSE @,
     !.completedAt = IF becomesDone(task, updates) THEN TRUE ELSE @]

ApplyTaskUpdates(task, updates) ==
  [task EXCEPT
     !.status = IF IsSome(updates.status) THEN Val(updates.status) ELSE @,
     !.priority = IF IsSome(updates.priority) THEN Val(updates.priority) ELSE @,
     !.estimatedHours = IF IsSome(updates.estimatedHours) THEN updates.estimatedHours ELSE @,
     !.actualHours = IF IsSome(updates.actualHours) THEN updates.actualHours ELSE @,
     !.assignedToId = IF IsSome(updates.assignedToId) THEN Val(updates.assignedToId) ELSE @,
     !.completedAt = IF becomesDone(task, updates) THEN TRUE
                     ELSE IF leavesDone(task, updates) THEN FALSE
                     ELSE @]
\* TasksUpdateLogs logging 'complete' whenever the updates ask for status done
TasksUpdateLogsCompleteOnDone(c, taskId, task, updates) ==
  (IF updates.status = Some("done") THEN << LogEntry(c, "complete", "task", taskId) >> ELSE << >>)
  \o (IF IsSome(updates.assignedToId) /\ Val(updates.assignedToId) # task.assignedToId
        THEN << LogEntry(c, "assign", "task", taskId) >> ELSE << >>)
  \o (IF Keys(updates) # {} THEN << LogEntry(c, "update", "task", taskId) >> ELSE << >>)

TasksUpdateLogs(c, taskId, task, updates) ==
  (IF becomesDone(task, updates) THEN << LogEntry(c, "complete", "task", taskId) >> ELSE << >>)
  \o (IF IsSome(updates.assignedToId) /\ Val(updates.assignedToId) # task.assignedToId
        THEN << LogEntry(c, "assign", "task", taskId) >> ELSE << >>)
  \o (IF Keys(updates) # {} THEN << LogEntry(c, "update", "task", taskId) >> ELSE << >>)

\* The counters are recomputed inside the two status branches, which run
\* before TasksCollection.update: the recompute reads the tasks as they were.
TasksUpdateCounters(task, updates) ==
  IF becomesDone(task, updates) \/ leavesDone(task, updates)
    THEN updateTaskCounters(projects, tasks, task.projectId)
    ELSE projects

TasksUpdate(c, taskId, updates) ==
  LET err == TasksUpdateError(c, taskId, updates)
  IN /\ last = Idle
     /\ LogHasRoom
     /\ IF err = NoError
          THEN /\ projects' = TasksUpdateCounters(tasks[taskId], updates)
               /\ tasks' = [tasks EXCEPT ![taskId] = ApplyTaskUpdates(@, updates)]
               /\ activityLogs' =
                    activityLogs \o TasksUpdateLogs(c, taskId, tasks[taskId], updates)
               /\ UNCHANGED << nextProjectId, nextTaskId >>
          ELSE UNCHANGED db
     /\ UNCHANGED calls
     /\ last' = Call("tasks.update", c, << taskId, updates >>, err)

\* tasks.remove guarded by canModifyTask, as tasks.assign is
TasksRemoveErrorCanModify(c, taskId) ==
  IF c = Null THEN NotAuthorized
  ELSE IF taskId \notin DOMAIN tasks THEN NotFound
  ELSE IF ~canModifyTask(c, tasks[taskId]) THEN NotAuthorized
  ELSE NoError

\* --------------------------------------------------------- tasks.remove
TasksRemoveError(c, taskId) ==
  IF c = Null THEN NotAuthorized
  ELSE IF taskId \notin DOMAIN tasks THEN NotFound
  ELSE
    LET task == tasks[taskId]
        isAdmin == UserExists(c) /\ Role(c) = "admin"
        isCreator == task.createdBy = c
    IN IF ~isAdmin /\ ~isCreator THEN NotAuthorized ELSE NoError

TasksRemove(c, taskId) ==
  LET err == TasksRemoveError(c, taskId)
      remaining == Remove(tasks, taskId)
  IN /\ last = Idle
     /\ LogHasRoom
     /\ IF err = NoError
          THEN /\ tasks' = remaining
               /\ projects' = updateTaskCounters(projects, remaining, tasks[taskId].projectId)
               /\ activityLogs' = logTaskActivity(activityLogs, c, "delete", taskId)
               /\ UNCHANGED << nextProjectId, nextTaskId >>
          ELSE UNCHANGED db
     /\ UNCHANGED calls
     /\ last' = Call("tasks.remove", c, << taskId >>, err)

\* --------------------------------------------------------- tasks.assign
AssignInputs == {Null, Emma, Gina}

TasksAssignError(c, taskId, userIdToAssign) ==
  IF c = Null THEN NotAuthorized
  ELSE IF taskId \notin DOMAIN tasks THEN NotFound
  ELSE
    LET task == tasks[taskId]
    IN IF ~canModifyTask(c, task) THEN NotAuthorized
       ELSE IF Truthy(userIdToAssign)
            THEN IF task.projectId \notin DOMAIN projects THEN NotFound
                 ELSE IF ~UserExists(userIdToAssign) THEN NotFound
                 ELSE IF ~isOnTeam(projects[task.projectId], userIdToAssign)
                      THEN ValidationError
                 ELSE NoError
       ELSE NoError

\* $set: {assignedToId: userIdToAssign || undefined} leaves the field unset
TasksAssign(c, taskId, userIdToAssign) ==
  LET err == TasksAssignError(c, taskId, userIdToAssign)
  IN /\ last = Idle
     /\ LogHasRoom
     /\ IF err = NoError
          THEN /\ tasks' = [tasks EXCEPT ![taskId].assignedToId =
                              IF Truthy(userIdToAssign) THEN userIdToAssign ELSE Undefined]
               /\ activityLogs' = logTaskActivity(activityLogs, c, "assign", taskId)
               /\ UNCHANGED << projects, nextProjectId, nextTaskId >>
          ELSE UNCHANGED db
     /\ UNCHANGED calls
     /\ last' = Call("tasks.assign", c, << taskId, userIdToAssign >>, err)

\* -------------------------------------------------------- tasks.logTime
HoursInputs == {0, 2}

\* tasks.logTime validating the hours before it looks at this.userId
TasksLogTimeErrorHoursFirst(c, taskId, hoursToAdd) ==
  IF hoursToAdd <= 0 THEN ValidationError
  ELSE IF c = Null THEN NotAuthorized
  ELSE IF taskId \notin DOMAIN tasks THEN NotFound
  ELSE
    LET task == tasks[taskId]
        isAssignee == task.assignedToId = c
        canModify == canModifyTask(c, task)
    IN IF ~isAssignee /\ ~canModify THEN NotAuthorized ELSE NoError

TasksLogTimeError(c, taskId, hoursToAdd) ==
  IF c = Null THEN NotAuthorized
  ELSE IF hoursToAdd <= 0 THEN ValidationError
  ELSE IF taskId \notin DOMAIN tasks THEN NotFound
  ELSE
    LET task == tasks[taskId]
        isAssignee == task.assignedToId = c
        canModify == canModifyTask(c, task)
    IN IF ~isAssignee /\ ~canModify THEN NotAuthorized ELSE NoError

\* $inc creates the field when it is missing
Inc(field, n) == Some((IF IsSome(field) THEN Val(field) ELSE 0) + n)

TasksLogTime(c, taskId, hoursToAdd) ==
  LET err == TasksLogTimeError(c, taskId, hoursToAdd)
  IN /\ last = Idle
     /\ LogHasRoom
     /\ IF err = NoError
          THEN /\ tasks' = [tasks EXCEPT ![taskId].actualHours = Inc(@, hoursToAdd)]
               /\ activityLogs' = logTaskActivity(activityLogs, c, "update", taskId)
               /\ UNCHANGED << projects, nextProjectId, nextTaskId >>
          ELSE UNCHANGED db
     /\ UNCHANGED calls
     /\ last' = Call("tasks.logTime", c, << taskId, hoursToAdd >>, err)

\* ------------------------------------------------------------ aggregations
\* The aggregation methods read the collections and write nothing; a call
\* leaves what it returned in `last`.  Of the returned documents the model
\* keeps the counts; names, hours and the values computed from dates are
\* left out.
CallWithResult(method, userId, args, error, result) ==
  [method |-> method, userId |-> userId, args |-> args, error |-> error,
   result |-> result]

Statuses == {"todo", "in_progress", "review", "done"}

\* the $group by status folded into { todo: 0, in_progress: 0, review: 0, done: 0 }
statusCounts(T, projectId) ==
  [s \in Statuses |-> Cardinality({t \in DOMAIN T : T[t].projectId = projectId
                                                     /\ T[t].status = s})]
\* the hundredths cut off instead of rounded
TruncHundredths(n, d) == (100 * n) \div d

\* Math.round(x * 100) for x = n / d, n >= 0, d > 0
RoundHundredths(n, d) == (200 * n + d) \div (2 * d)

\* completionRate is kept in hundredths
getProjectStatistics(T, projectId) ==
  LET totalTasks == CountTasks(T, projectId)
      completedTasks == statusCounts(T, projectId)["done"]
  IN [totalTasks |-> totalTasks,
      tasksByStatus |-> statusCounts(T, projectId),
      completionRate |-> IF totalTasks > 0
                           THEN RoundHundredths(completedTasks, totalTasks)
                           ELSE 0]

AggregationsGetProjectStatisticsError(c, projectId) ==
  IF c = Null THEN NotAuthorized
  ELSE IF projectId \notin DOMAIN projects THEN NotFound
  ELSE
    LET project == projects[projectId]
        hasAccess == project.ownerId = c \/ Includes(project.teamMemberIds, c)
        isAdmin == Role(c) = "admin"
    IN IF ~hasAccess /\ ~isAdmin THEN NotAuthorized ELSE NoError

AggregationsGetProjectStatistics(c, projectId) ==
  LET err == AggregationsGetProjectStatisticsError(c, projectId)
  IN /\ last = Idle
     /\ LogHasRoom
     /\ UNCHANGED db
     /\ UNCHANGED calls
     /\ last' = CallWithResult("aggregations.getProjectStatistics", c, << projectId >>, err,
                               IF err = NoError
                                 THEN Some(getProjectStatistics(tasks, projectId))
                                 ELSE None)

\* the tasks the $match stage of getTeamPerformance lets through
TeamPerformanceTasks(T, projectId) ==
  {t \in DOMAIN T : /\ IsSome(projectId) => T[t].projectId = Val(projectId)
                    /\ T[t].assignedToId # Undefined}

\* one document for each assignee the $lookup finds a user for
getTeamPerformance(T, projectId) ==
  LET matched == TeamPerformanceTasks(T, projectId)
      assignees == {T[t].assignedToId : t \in matched} \cap Users
      of(u) == {t \in matched : T[t].assignedToId = u}
  IN [u \in assignees |->
        [tasksTotal |-> Cardinality(of(u)),
         tasksCompleted |-> Cardinality({t \in of(u) : T[t].status = "done"}),
         tasksInProgress |-> Cardinality({t \in of(u) : T[t].status = "in_progress"})]]

\* the optional projectId
PerformanceInputs == {None} \cup {Some(p) : p \in ProjectIds}

AggregationsGetTeamPerformanceError(c, projectId) ==
  IF c = Null THEN NotAuthorized
  ELSE IF Role(c) = "member" THEN NotAuthorized
  ELSE NoError

AggregationsGetTeamPerformance(c, projectId) ==
  LET err == AggregationsGetTeamPerformanceError(c, projectId)
  IN /\ last = Idle
     /\ LogHasRoom
     /\ UNCHANGED db
     /\ UNCHANGED calls
     /\ last' = CallWithResult("aggregations.getTeamPerformance", c, << projectId >>, err,
                               IF err = NoError
                                 THEN Some(getTeamPerformance(tasks, projectId))
                                 ELSE None)

\* the groups of the $match / $group pipeline of getPriorityDistribution
distribution(T) ==
  LET active == {t \in DOMAIN T : T[t].status # "done"}
      ids == {<< T[t].priority, T[t].status >> : t \in active}
  IN [id \in ids |-> Cardinality({t \in active : << T[t].priority, T[t].status >> = id})]
\* the result with every cell of a priority holding the count of all its active tasks
getPriorityDistributionByPriority(T) ==
  [priority \in {"high", "medium", "low"} |->
     [status \in {"todo", "in_progress", "review"} |->
        Cardinality({t \in DOMAIN T : T[t].status # "done" /\ T[t].priority = priority})]]

getPriorityDistribution(T) ==
  LET groups == distribution(T)
  IN [priority \in {"high", "medium", "low"} |->
        [status \in {"todo", "in_progress", "review"} |->
           IF << priority, status >> \in DOMAIN groups
             THEN groups[<< priority, status >>]
             ELSE 0]]

AggregationsGetPriorityDistributionError(c) ==
  IF c = Null THEN NotAuthorized ELSE NoError

AggregationsGetPriorityDistribution(c) ==
  LET err == AggregationsGetPriorityDistributionError(c)
  IN /\ last = Idle
     /\ LogHasRoom
     /\ UNCHANGED db
     /\ UNCHANGED calls
     /\ last' = CallWithResult("aggregations.getPriorityDistribution", c, << >>, err,
                               IF err = NoError
                                 THEN Some(getPriorityDistribution(tasks))
                                 ELSE None)

\* ---------------------------------------------------------------- Return
\* The method's result (or error) reaches the client; the next call may start.
Return ==
  /\ last # Idle
  /\ UNCHANGED calls
  /\ last' = Idle
  /\ UNCHANGED db

Next ==
  \/ \E c \in Callers, data \in ProjectInsertInputs : ProjectsInsert(c, data)
  \/ \E c \in Callers, p \in ProjectIds, u \in ProjectUpdateInputs : ProjectsUpdate(c, p, u)
  \/ \E c \in Callers, p \in ProjectIds, hard \in BOOLEAN : ProjectsRemove(c, p, hard)
  \/ \E c \in Callers, p \in ProjectIds, u \in AddMemberInputs : ProjectsAddTeamMember(c, p, u)
  \/ \E c \in Callers, p \in ProjectIds, u \in RemoveMemberInputs : ProjectsRemoveTeamMember(c, p, u)
  \/ \E c \in RecountCallers, p \in ProjectIds : ProjectsUpdateTaskCounters(c, p)
  \/ \E c \in Callers, p \in ProjectIds, data \in TaskInsertInputs : TasksInsert(c, p, data)
  \/ \E c \in Callers, t \in TaskIds, u \in TaskUpdateInputs : TasksUpdate(c, t, u)
  \/ \E c \in Callers, t \in TaskIds : TasksRemove(c, t)
  \/ \E c \in Callers, t \in TaskIds, u \in AssignInputs : TasksAssign(c, t, u)
  \/ \E c \in Callers, t \in TaskIds, h \in HoursInputs : TasksLogTime(c, t, h)
  \/ \E c \in Callers, p \in ProjectIds : AggregationsGetProjectStatistics(c, p)
  \/ \E c \in Callers, p \in PerformanceInputs : AggregationsGetTeamPerformance(c, p)
  \/ \E c \in Callers : AggregationsGetPriorityDistribution(c)
  \/ Return

Spec == Init /\ [][Next]_vars

\* ------------------------------------------- the aggregations over any tasks
\* The read-only aggregations, applied to every collection of at most MaxTasks
\* tasks: the seeded projects, the tasks of project 1 drawn with every priority
\* and status, project 2 without tasks.
MaxTasks == 3

Priorities == {"high", "medium", "low"}

\* the document tasks.insert stores, brought to `status` by tasks.update
DrawnTask(priority, status) ==
  [projectId |-> 1, assignedToId |-> David, status |-> status,
   priority |-> priority, estimatedHours |-> None, actualHours |-> None,
   createdBy |-> Bob, completedAt |-> (status = "done")]

StatsInit ==
  /\ \E n \in 0..MaxTasks :
       \E shape \in [1..n -> Priorities \X Statuses] :
         /\ tasks = [t \in 1..n |-> DrawnTask(shape[t][1], shape[t][2])]
         /\ nextTaskId = n + 1
         /\ projects =
              (1 :> [SeedProject EXCEPT
                       !.metadata.totalTasks = n,
                       !.metadata.completedTasks =
                          Cardinality({t \in 1..n : shape[t][2] = "done"})])
              @@ (2 :> InsertedProject)
  /\ activityLogs = SeedLogs
  /\ nextProjectId = 3
  /\ last = Idle
  /\ calls = << >>

StatsNext ==
  \/ \E c \in Callers, p \in ProjectIds : AggregationsGetProjectStatistics(c, p)
  \/ \E c \in Callers : AggregationsGetPriorityDistribution(c)
  \/ Return

StatsSpec == StatsInit /\ [][StatsNext]_vars

\* ------------------------------------------------ aggregations.getUserStatistics
\* The statistics of a user read two dates the rest of the model leaves out:
\* here a task carries `completionDays`, the days from createdAt to completedAt,
\* and `overdue`, whether its dueDate lies before now.
MaxUserTasks == 2

DaysInputs == {1, 2}

\* Math.round(x * 10) for x = n / d, n >= 0, d > 0
RoundTenths(n, d) == (20 * n + d) \div (2 * d)

RECURSIVE SumDays(_, _)
SumDays(T, S) ==
  IF S = {} THEN 0
  ELSE LET t == CHOOSE x \in S : TRUE
       IN T[t].completionDays + SumDays(T, S \ {t})

\* the third pipeline matching the done tasks of every user
getUserStatisticsAnyAssignee(T, userId) ==
  LET mine == {t \in DOMAIN T : T[t].assignedToId = userId}
      completed == {t \in DOMAIN T : T[t].status = "done" /\ T[t].completedAt}
  IN [totalTasksAssigned |-> Cardinality(mine),
      tasksByStatus |-> [s \in Statuses |-> Cardinality({t \in mine : T[t].status = s})],
      tasksByPriority |-> [p \in Priorities |-> Cardinality({t \in mine : T[t].priority = p})],
      averageCompletionDays |->
        IF completed = {} THEN 0
        ELSE RoundTenths(SumDays(T, completed), Cardinality(completed)),
      overdueCount |-> Cardinality({t \in mine : T[t].status # "done" /\ T[t].overdue})]

\* averageCompletionDays is kept in tenths of a day
getUserStatistics(T, userId) ==
  LET mine == {t \in DOMAIN T : T[t].assignedToId = userId}
      completed == {t \in mine : T[t].status = "done" /\ T[t].completedAt}
  IN [totalTasksAssigned |-> Cardinality(mine),
      tasksByStatus |-> [s \in Statuses |-> Cardinality({t \in mine : T[t].status = s})],
      tasksByPriority |-> [p \in Priorities |-> Cardinality({t \in mine : T[t].priority = p})],
      averageCompletionDays |->
        IF completed = {} THEN 0
        ELSE RoundTenths(SumDays(T, completed), Cardinality(completed)),
      overdueCount |-> Cardinality({t \in mine : T[t].status # "done" /\ T[t].overdue})]

AggregationsGetUserStatisticsError(c) ==
  IF c = Null THEN NotAuthorized ELSE NoError

AggregationsGetUserStatistics(c) ==
  LET err == AggregationsGetUserStatisticsError(c)
  IN /\ last = Idle
     /\ LogHasRoom
     /\ UNCHANGED db
     /\ UNCHANGED calls
     /\ last' = CallWithResult("aggregations.getUserStatistics", c, << >>, err,
                               IF err = NoError
                                 THEN Some(getUserStatistics(tasks, c))
                                 ELSE None)

\* a task of project 1 assigned to david, with its two dates
DatedTask(priority, status, days, overdue) ==
  [projectId |-> 1, assignedToId |-> David, status |-> status,
   priority |-> priority, estimatedHours |-> None, actualHours |-> None,
   createdBy |-> Bob, completedAt |-> (status = "done"),
   completionDays |-> days, overdue |-> overdue]

\* a task that is not done has no completion time to draw
DatedShapes ==
  {sh \in Priorities \X Statuses \X DaysInputs \X BOOLEAN :
     sh[2] # "done" => sh[3] = 1}

UserStatsInit ==
  /\ \E n \in 0..MaxUserTasks :
       \E shape \in [1..n -> DatedShapes] :
         /\ tasks = [t \in 1..n |->
                       DatedTask(shape[t][1], shape[t][2], shape[t][3], shape[t][4])]
         /\ nextTaskId = n + 1
         /\ projects =
              (1 :> [SeedProject EXCEPT
                       !.metadata.totalTasks = n,
                       !.metadata.completedTasks =
                          Cardinality({t \in 1..n : shape[t][2] = "done"})])
              @@ (2 :> InsertedProject)
  /\ activityLogs = SeedLogs
  /\ nextProjectId = 3
  /\ last = Idle
  /\ calls = << >>

UserStatsNext ==
  \/ \E c \in Callers : AggregationsGetUserStatistics(c)
  \/ Return

UserStatsSpec == UserStatsInit /\ [][UserStatsNext]_vars

\* ---------------------------------------------- aggregations.getActivityTimeline
\* The timeline over every activity log of at most MaxEntries entries.  The
\* entries carry no date in this model: all of them were written today, so a
\* window of `days` >= 0 holds them all and a negative one holds none, and the
\* timeline has one day at most.  Document ids are unique across collections, so
\* the entityId option names an entity by its type and id.
MaxEntries == 3

Actions == {"create", "update", "delete", "complete", "assign"}

DefaultDays == 30

TimelineInputs ==
  [userId : {None, Some(EmptyId), Some(David), Some(Bob)},
   entityId : {None, Some(<< "project", 1 >>), Some(<< "task", 1 >>)},
   days : {None, Some(7), Some(-1)}]

\* the entries the $match stage lets through
TimelineMatch(log, options) ==
  LET days == IF IsSome(options.days) THEN Val(options.days) ELSE DefaultDays
  IN {i \in DOMAIN log :
        /\ days >= 0
        /\ (IsSome(options.userId) /\ Truthy(Val(options.userId)))
              => log[i].userId = Val(options.userId)
        /\ IsSome(options.entityId)
              => << log[i].entityType, log[i].entityId >> = Val(options.entityId)}

\* one document for each day with a matching entry, with the count of each action
getActivityTimeline(log, options) ==
  LET matched == TimelineMatch(log, options)
  IN IF matched = {} THEN << >>
     ELSE << [a \in Actions |-> Cardinality({i \in matched : log[i].action = a})] >>

AggregationsGetActivityTimelineError(c, options) ==
  IF c = Null THEN NotAuthorized
  ELSE IF /\ IsSome(options.userId)
          /\ Truthy(Val(options.userId))
          /\ Val(options.userId) # c
          /\ Role(c) # "admin"
       THEN NotAuthorized
  ELSE NoError

AggregationsGetActivityTimeline(c, options) ==
  LET err == AggregationsGetActivityTimelineError(c, options)
  IN /\ last = Idle
     /\ UNCHANGED db
     /\ UNCHANGED calls
     /\ last' = CallWithResult("aggregations.getActivityTimeline", c, << options >>, err,
                               IF err = NoError
                                 THEN Some(getActivityTimeline(activityLogs, options))
                                 ELSE None)

\* entries the methods write for project 1 and its task 1
TimelineEntries ==
  {LogEntry(Bob, "create", "project", 1),
   LogEntry(Bob, "update", "project", 1),
   LogEntry(Bob, "assign", "task", 1),
   LogEntry(David, "update", "task", 1),
   LogEntry(David, "complete", "task", 1)}

TimelineInit ==
  /\ projects = (1 :> SeedProject) @@ (2 :> InsertedProject)
  /\ tasks = SeedTasks
  /\ \E n \in 0..MaxEntries : activityLogs \in [1..n -> TimelineEntries]
  /\ nextProjectId = 3
  /\ nextTaskId = 3
  /\ last = Idle
  /\ calls = << >>

TimelineNext ==
  \/ \E c \in Callers, options \in TimelineInputs : AggregationsGetActivityTimeline(c, options)
  \/ Return

TimelineSpec == TimelineInit /\ [][TimelineNext]_vars

\* ------------------------------------------------------- concurrent calls
\* Two clients call a method each, and the server runs the two handlers in two
\* fibers: a handler yields at each of its database operations, so the
\* operations of the two calls interleave in any order.  `calls` holds, for each
\* client, the call, the place its handler has reached, what the handler has
\* read so far, and the kinds of the writes it has made, in their order.
Clients == {1, 2}

Started(method, userId, args) ==
  [method |-> method, userId |-> userId, args |-> args, pc |-> "check",
   error |-> NoError, task |-> None, taskId |-> None,
   totalTasks |-> 0, completedTasks |-> 0, ops |-> << >>]

LogHoursInputs == {1, 2}

StatusUpdates ==
  { NoTaskUpdates,
    [NoTaskUpdates EXCEPT !.status = Some("done")],
    [NoTaskUpdates EXCEPT !.status = Some("todo")] }

ConcurrentCalls ==
  {Started("tasks.insert", Bob, << p, ValidTask >>) : p \in {1, 2}}
  \cup {Started("tasks.update", Bob, << t, u >>) : t \in {1, 2}, u \in StatusUpdates}
  \cup {Started("tasks.remove", c, << 1 >>) : c \in {Bob, Emma}}
  \cup {Started("tasks.logTime", c, << 1, h >>) : c \in {Bob, David}, h \in LogHoursInputs}
  \cup {Started("projects.remove", Bob, << p, TRUE >>) : p \in {1, 2}}

\* the project whose counters the call recomputes
CountedProject(k) ==
  IF k.method = "tasks.insert" THEN k.args[1] ELSE Val(k.task).projectId

\* the reads and the checks a handler makes before its first write
CheckError(k) ==
  CASE k.method = "tasks.insert" -> TasksInsertError(k.userId, k.args[1], k.args[2])
    [] k.method = "tasks.update" -> TasksUpdateError(k.userId, k.args[1], k.args[2])
    [] k.method = "tasks.remove" -> TasksRemoveError(k.userId, k.args[1])
    [] k.method = "tasks.logTime" -> TasksLogTimeError(k.userId, k.args[1], k.args[2])
    [] k.method = "projects.remove" -> ProjectsRemoveError(k.userId, k.args[1], FALSE)

\* where a handler goes after its checks have passed
AfterCheck(k, task) ==
  CASE k.method = "tasks.update" ->
         IF becomesDone(Val(task), k.args[2]) THEN "logComplete"
         ELSE IF leavesDone(Val(task), k.args[2]) THEN "countTotal"
         ELSE "writeTask"
    [] k.method = "projects.remove" -> "countProjectTasks"
    [] OTHER -> "writeTask"

Check(cl) ==
  LET k == calls[cl]
      err == CheckError(k)
      task == IF k.method \in {"tasks.update", "tasks.remove", "tasks.logTime"}
                   /\ k.args[1] \in DOMAIN tasks
                THEN Some(tasks[k.args[1]])
                ELSE None
  IN /\ k.pc = "check"
     /\ calls' = [calls EXCEPT ![cl] =
                    IF err = NoError
                      THEN [k EXCEPT !.task = task, !.pc = AfterCheck(k, task)]
                      ELSE [k EXCEPT !.error = err, !.pc = "done"]]
     /\ UNCHANGED << db, last >>

\* the $set / $unset that tasks.update builds from the task it read, applied to
\* the task as it is when the write runs
WriteTaskUpdates(current, task, updates) ==
  [current EXCEPT
     !.status = IF IsSome(updates.status) THEN Val(updates.status) ELSE @,
     !.priority = IF IsSome(updates.priority) THEN Val(updates.priority) ELSE @,
     !.estimatedHours = IF IsSome(updates.estimatedHours) THEN updates.estimatedHours ELSE @,
     !.actualHours = IF IsSome(updates.actualHours) THEN updates.actualHours ELSE @,
     !.assignedToId = IF IsSome(updates.assignedToId) THEN Val(updates.assignedToId) ELSE @,
     !.completedAt = IF becomesDone(task, updates) THEN TRUE
                     ELSE IF leavesDone(task, updates) THEN FALSE
                     ELSE @]

\* tasks.logTime writing the hours of the task it read plus the hours to add
LogTimeWriteSet(current, task, hoursToAdd) ==
  [current EXCEPT !.actualHours = Inc(task.actualHours, hoursToAdd)]

\* the $inc of tasks.logTime works on the task as it is when the write runs
LogTimeWrite(current, task, hoursToAdd) ==
  [current EXCEPT !.actualHours = Inc(@, hoursToAdd)]

\* the entries tasks.update appends after its write
TasksUpdateLateLogs(c, taskId, task, updates) ==
  (IF IsSome(updates.assignedToId) /\ Val(updates.assignedToId) # task.assignedToId
     THEN << LogEntry(c, "assign", "task", taskId) >> ELSE << >>)
  \o (IF Keys(updates) # {} THEN << LogEntry(c, "update", "task", taskId) >> ELSE << >>)

\* TasksCollection.insert / update / remove of the handler
WriteTask(cl) ==
  LET k == calls[cl]
      taskId == IF k.method = "tasks.insert" THEN nextTaskId ELSE k.args[1]
      exists == taskId \in DOMAIN tasks
  IN /\ k.pc = "writeTask"
     /\ tasks' =
          CASE k.method = "tasks.insert" ->
                 tasks @@ (taskId :> NewTask(k.userId, k.args[1], k.args[2]))
            [] k.method = "tasks.update" ->
                 IF exists
                   THEN [tasks EXCEPT ![taskId] = WriteTaskUpdates(@, Val(k.task), k.args[2])]
                   ELSE tasks
            [] k.method = "tasks.remove" -> Remove(tasks, taskId)
            [] k.method = "tasks.logTime" ->
                 IF exists
                   THEN [tasks EXCEPT ![taskId] = LogTimeWrite(@, Val(k.task), k.args[2])]
                   ELSE tasks
     /\ nextTaskId' = IF k.method = "tasks.insert" THEN nextTaskId + 1 ELSE nextTaskId
     /\ calls' = [calls EXCEPT ![cl] =
                    [k EXCEPT
                       !.taskId = Some(taskId),
                       !.ops = Append(@, "task"),
                       !.pc = CASE k.method \in {"tasks.insert", "tasks.remove"} -> "countTotal"
                                [] k.method = "tasks.logTime" -> "log"
                                [] k.method = "tasks.update" ->
                                     IF TasksUpdateLateLogs(k.userId, taskId, Val(k.task),
                                                            k.args[2]) = << >>
                                       THEN "done" ELSE "log"]]
     /\ UNCHANGED << projects, activityLogs, nextProjectId, last >>

\* the 'complete' entry tasks.update appends before anything else
LogComplete(cl) ==
  LET k == calls[cl]
  IN /\ k.pc = "logComplete"
     /\ activityLogs' = logTaskActivity(activityLogs, k.userId, "complete", k.args[1])
     /\ calls' = [calls EXCEPT ![cl] = [k EXCEPT !.ops = Append(@, "log"),
                                                 !.pc = "countTotal"]]
     /\ UNCHANGED << projects, tasks, nextProjectId, nextTaskId, last >>

\* projects.updateTaskCounters: the first count
CountTotal(cl) ==
  LET k == calls[cl]
  IN /\ k.pc = "countTotal"
     /\ calls' = [calls EXCEPT ![cl] =
                    [k EXCEPT !.totalTasks = CountTasks(tasks, CountedProject(k)),
                              !.pc = "countCompleted"]]
     /\ UNCHANGED << db, last >>

\* projects.updateTaskCounters: the second count
CountCompleted(cl) ==
  LET k == calls[cl]
  IN /\ k.pc = "countCompleted"
     /\ calls' = [calls EXCEPT ![cl] =
                    [k EXCEPT !.completedTasks = CountDoneTasks(tasks, CountedProject(k)),
                              !.pc = "setCounters"]]
     /\ UNCHANGED << db, last >>

\* projects.updateTaskCounters: the $set of the two counts
SetCounters(cl) ==
  LET k == calls[cl]
      projectId == CountedProject(k)
  IN /\ k.pc = "setCounters"
     /\ projects' =
          IF projectId \in DOMAIN projects
            THEN [projects EXCEPT ![projectId].metadata.totalTasks = k.totalTasks,
                                  ![projectId].metadata.completedTasks = k.completedTasks]
            ELSE projects
     /\ calls' = [calls EXCEPT ![cl] =
                    [k EXCEPT !.ops = Append(@, "counters"),
                              !.pc = IF k.method = "tasks.update" THEN "writeTask" ELSE "log"]]
     /\ UNCHANGED << tasks, activityLogs, nextProjectId, nextTaskId, last >>

\* projects.remove, hard: the count of the tasks of the project
CountProjectTasks(cl) ==
  LET k == calls[cl]
  IN /\ k.pc = "countProjectTasks"
     /\ calls' = [calls EXCEPT ![cl] =
                    IF CountTasks(tasks, k.args[1]) > 0
                      THEN [k EXCEPT !.error = ValidationError, !.pc = "done"]
                      ELSE [k EXCEPT !.pc = "removeProject"]]
     /\ UNCHANGED << db, last >>

\* projects.remove, hard: ProjectsCollection.remove
RemoveProject(cl) ==
  LET k == calls[cl]
  IN /\ k.pc = "removeProject"
     /\ projects' = Remove(projects, k.args[1])
     /\ calls' = [calls EXCEPT ![cl] = [k EXCEPT !.ops = Append(@, "project"),
                                                 !.pc = "log"]]
     /\ UNCHANGED << tasks, activityLogs, nextProjectId, nextTaskId, last >>

\* the entries the handler appends last
Log(cl) ==
  LET k == calls[cl]
      c == k.userId
  IN /\ k.pc = "log"
     /\ activityLogs' =
          CASE k.method = "tasks.insert" ->
                 activityLogs \o TasksInsertLogs(c, Val(k.taskId), k.args[2])
            [] k.method = "tasks.update" ->
                 activityLogs \o TasksUpdateLateLogs(c, k.args[1], Val(k.task), k.args[2])
            [] k.method = "tasks.remove" ->
                 logTaskActivity(activityLogs, c, "delete", k.args[1])
            [] k.method = "tasks.logTime" ->
                 logTaskActivity(activityLogs, c, "update", k.args[1])
            [] k.method = "projects.remove" ->
                 logActivity(activityLogs, c, "delete", k.args[1])
     /\ calls' = [calls EXCEPT ![cl] = [k EXCEPT !.ops = Append(@, "log"),
                                                 !.pc = "done"]]
     /\ UNCHANGED << projects, tasks, nextProjectId, nextTaskId, last >>

ConcurrentInit ==
  /\ projects = (1 :> SeedProject) @@ (2 :> InsertedProject)
  /\ \E hours \in {None, SeedTasks[1].actualHours} :
       tasks = [SeedTasks EXCEPT ![1].actualHours = hours]
  /\ activityLogs = SeedLogs
  /\ nextProjectId = 3
  /\ nextTaskId = 3
  /\ last = Idle
  /\ calls \in [Clients -> ConcurrentCalls]

ConcurrentNext ==
  \/ \E cl \in Clients : Check(cl)
  \/ \E cl \in Clients : WriteTask(cl)
  \/ \E cl \in Clients : LogComplete(cl)
  \/ \E cl \in Clients : CountTotal(cl)
  \/ \E cl \in Clients : CountCompleted(cl)
  \/ \E cl \in Clients : SetCounters(cl)
  \/ \E cl \in Clients : CountProjectTasks(cl)
  \/ \E cl \in Clients : RemoveProject(cl)
  \/ \E cl \in Clients : Log(cl)

ConcurrentSpec == ConcurrentInit /\ [][ConcurrentNext]_vars

\* ====================================================================
\* Properties
\* ====================================================================
Collections == << projects, tasks, activityLogs >>

TasksOf(T, pid) == {t \in DOMAIN T : T[t].projectId = pid}

DoneTasksOf(T, pid) == {t \in TasksOf(T, pid) : T[t].status = "done"}

CountersMatch(P, T, pid) ==
  pid \in DOMAIN P =>
    /\ P[pid].metadata.totalTasks = Cardinality(TasksOf(T, pid))
    /\ P[pid].metadata.completedTasks = Cardinality(DoneTasksOf(T, pid))

IsAdmin(c) == c \in Users /\ Role(c) = "admin"

\* C1: after a successful tasks.insert, tasks.update or tasks.remove the
\* counters of the project of the task equal the number of its tasks and of
\* its done tasks.
C1_CountersMatchAfterTaskMutation ==
  [][ /\ \A c \in Callers, p \in ProjectIds, data \in TaskInsertInputs :
           (TasksInsert(c, p, data) /\ last'.error = NoError)
             => CountersMatch(projects', tasks', p)
      /\ \A c \in Callers, t \in TaskIds, u \in TaskUpdateInputs :
           (TasksUpdate(c, t, u) /\ last'.error = NoError)
             => CountersMatch(projects', tasks', tasks[t].projectId)
      /\ \A c \in Callers, t \in TaskIds :
           (TasksRemove(c, t) /\ last'.error = NoError)
             => CountersMatch(projects', tasks', tasks[t].projectId) ]_vars

\* C2: in every reachable state a task has completedAt set exactly when its
\* status is done.
C2_CompletedAtIffDone ==
  \A t \in DOMAIN tasks : tasks[t].completedAt <=> (tasks[t].status = "done")

\* the seeded done task was moved out of done by tasks.update
C2_Witness ==
  /\ last.method = "tasks.update"
  /\ last.args = << 2, [NoTaskUpdates EXCEPT !.status = Some("todo")] >>
  /\ last.error = NoError
  /\ 2 \in DOMAIN tasks
  /\ tasks[2].status = "todo"
  /\ ~tasks[2].completedAt

AssigneeOnly(c, task) ==
  /\ task.assignedToId = c
  /\ task.createdBy # c
  /\ ~IsAdmin(c)
  /\ ~(task.projectId \in DOMAIN projects /\ projects[task.projectId].ownerId = c)

\* C3: a tasks.update call by a caller who is only the task's assignee is
\* rejected with not-authorized, the task unchanged, when the updates name a
\* field outside status, actualHours and description; it is accepted when
\* the updates name status alone.
C3_AssigneeLimitedToAllowedFields ==
  [][ \A c \in Users, t \in TaskIds, u \in TaskUpdateInputs :
        (TasksUpdate(c, t, u) /\ t \in DOMAIN tasks /\ AssigneeOnly(c, tasks[t]))
          => IF Keys(u) \ {"status", "actualHours", "description"} # {}
               THEN last'.error = NotAuthorized /\ tasks' = tasks
               ELSE (Keys(u) = {"status"} => last'.error = NoError) ]_vars

Rejections == {NotAuthorized, NotFound, ValidationError}

\* C4: a projects.* or tasks.* call that ends in not-authorized, not-found or
\* validation-error leaves projects, tasks and activityLogs as they were.
C4_RejectedCallWritesNothing ==
  [][ (last' # Idle /\ last'.error \in Rejections) => UNCHANGED Collections ]_vars

\* a tasks.update call was rejected by a validation that runs after the
\* permission checks
C4_Witness ==
  /\ last.method = "tasks.update"
  /\ last.userId = Bob
  /\ last.args = << 1, [NoTaskUpdates EXCEPT !.assignedToId = Some(Gina)] >>
  /\ last.error = ValidationError

OnTeamOf(pid, u) ==
  pid \in DOMAIN projects
    /\ (projects[pid].ownerId = u \/ Includes(projects[pid].teamMemberIds, u))

\* C6: in every reachable state, projects.removeTeamMember and
\* projects.update of teamMemberIds included, the assignee of every assigned
\* task is the owner of the task's project or one of its team members.
C6_AssigneeIsOnTeam ==
  \A t \in DOMAIN tasks :
    Truthy(tasks[t].assignedToId)
      => OnTeamOf(tasks[t].projectId, tasks[t].assignedToId)

IsCreatorOrAdmin(c, task) == c # Null /\ (IsAdmin(c) \/ task.createdBy = c)

\* C7: tasks.remove on an existing task by a caller who is neither its
\* creator nor an admin is rejected with not-authorized and the task stays
\* as it was; a task disappears only through a call of its creator or of an
\* admin.
C7_OnlyCreatorOrAdminRemoves ==
  [][ \A c \in Callers, t \in TaskIds :
        (TasksRemove(c, t) /\ t \in DOMAIN tasks)
          => /\ ~IsCreatorOrAdmin(c, tasks[t])
                  => (last'.error = NotAuthorized /\ tasks' = tasks)
             /\ t \notin DOMAIN tasks' => IsCreatorOrAdmin(c, tasks[t]) ]_vars

\* the owner of the project was refused the removal of a task a team member
\* created, and the task is still there
C7_Witness ==
  /\ last.method = "tasks.remove"
  /\ last.userId = Bob
  /\ last.args = << 2 >>
  /\ last.error = NotAuthorized
  /\ 2 \in DOMAIN tasks
  /\ tasks[2].createdBy = David
  /\ projects[tasks[2].projectId].ownerId = Bob

IsOwnerOrAdmin(c, project) == c # Null /\ (IsAdmin(c) \/ project.ownerId = c)

Refused(c, p) ==
  (p \in DOMAIN projects /\ ~IsOwnerOrAdmin(c, projects[p]))
    => (last'.error = NotAuthorized /\ projects' = projects)

\* C8: projects.update, projects.remove, projects.addTeamMember and
\* projects.removeTeamMember on an existing project by a caller who is
\* neither an admin nor its owner end in not-authorized and leave the
\* projects as they were.
C8_OnlyOwnerOrAdminModifiesProject ==
  [][ \A c \in Callers, p \in ProjectIds :
        /\ \A u \in ProjectUpdateInputs : ProjectsUpdate(c, p, u) => Refused(c, p)
        /\ \A hard \in BOOLEAN : ProjectsRemove(c, p, hard) => Refused(c, p)
        /\ \A u \in AddMemberInputs : ProjectsAddTeamMember(c, p, u) => Refused(c, p)
        /\ \A u \in RemoveMemberInputs :
             ProjectsRemoveTeamMember(c, p, u) => Refused(c, p) ]_vars

\* a team member of the project was refused projects.removeTeamMember
C8_Witness ==
  /\ last.method = "projects.removeTeamMember"
  /\ last.userId = David
  /\ last.args = << 1, David >>
  /\ last.error = NotAuthorized
  /\ Includes(projects[1].teamMemberIds, David)

\* the checks tasks.insert makes before it looks at the assignee
ReachesAssigneeCheck(c, p, data) ==
  /\ c # Null
  /\ data.title = "valid"
  /\ p \in DOMAIN projects
  /\ IsAdmin(c) \/ OnTeamOf(p, c)

C10_HardDeleteOnlyWithoutTasks ==
  [][ \A c \in Callers, p \in ProjectIds, hard \in BOOLEAN :
        (ProjectsRemove(c, p, hard) /\ p \in DOMAIN projects)
          => /\ (hard /\ IsOwnerOrAdmin(c, projects[p]))
                  => IF TasksOf(tasks, p) # {}
                       THEN last'.error = ValidationError /\ UNCHANGED Collections
                       ELSE last'.error = NoError /\ p \notin DOMAIN projects'
             /\ p \notin DOMAIN projects' => (hard /\ TasksOf(tasks, p) = {}) ]_vars

\* the owner was refused the hard delete of the project that has tasks
C10_Witness ==
  /\ last.method = "projects.remove"
  /\ last.userId = Bob
  /\ last.args = << 1, TRUE >>
  /\ last.error = ValidationError
  /\ 1 \in DOMAIN projects
  /\ TasksOf(tasks, 1) # {}

C12_RecountHealsAndIsIdempotent ==
  [][ \A c \in Callers, p \in ProjectIds :
        ProjectsUpdateTaskCounters(c, p)
          => /\ last'.error = NoError
             /\ CountersMatch(projects', tasks', p)
             /\ tasks' = tasks /\ activityLogs' = activityLogs
             /\ \A q \in DOMAIN projects : q # p => projects'[q] = projects[q]
             /\ CountersMatch(projects, tasks, p) => projects' = projects
             /\ updateTaskCounters(projects', tasks', p) = projects' ]_vars

\* tasks.update had completed task 1 and left completedTasks at 1; the
\* recount that followed set it to 2
C12_Witness ==
  /\ last.method = "projects.updateTaskCounters"
  /\ last.args = << 1 >>
  /\ last.error = NoError
  /\ tasks[1].status = "done"
  /\ tasks[2].status = "done"
  /\ projects[1].metadata.completedTasks = 2
  /\ projects[1].metadata.totalTasks = 2

NoDuplicates(seq) == \A i, j \in DOMAIN seq : seq[i] = seq[j] => i = j

\* C13: in every reachable state no project lists a user twice in
\* teamMemberIds, and a projects.addTeamMember call naming a user who is
\* already a member leaves teamMemberIds of the project as it was.
C13_TeamHasNoDuplicates ==
  /\ [](\A p \in DOMAIN projects : NoDuplicates(projects[p].teamMemberIds))
  /\ [][ \A c \in Callers, p \in ProjectIds, u \in AddMemberInputs :
           (ProjectsAddTeamMember(c, p, u)
              /\ p \in DOMAIN projects
              /\ \E i \in DOMAIN projects[p].teamMemberIds :
                   projects[p].teamMemberIds[i] = u)
             => projects'[p].teamMemberIds = projects[p].teamMemberIds ]_vars

\* the owner added a user who was a member already
C13_Witness ==
  /\ last.method = "projects.addTeamMember"
  /\ last.userId = Bob
  /\ last.args = << 1, David >>
  /\ last.error = ValidationError
  /\ projects[1].teamMemberIds = << David, Emma >>

\* C14: no method call modifies or removes an entry of activityLogs: every
\* step leaves the entries that were there, in their place and with their
\* fields, and at most appends new ones.
C14_LogIsAppendOnly ==
  [][ /\ Len(activityLogs') >= Len(activityLogs)
      /\ \A i \in DOMAIN activityLogs : activityLogs'[i] = activityLogs[i] ]_vars

\* a call has appended to the seeded log
C14_Witness ==
  /\ last # Idle
  /\ last.error = NoError
  /\ Len(activityLogs) > Len(SeedLogs)
  /\ SubSeq(activityLogs, 1, Len(SeedLogs)) = SeedLogs

OwnsProjectOf(c, task) ==
  task.projectId \in DOMAIN projects /\ projects[task.projectId].ownerId = c

\* C15: a tasks.assign call on an existing task by a logged-in caller who is
\* neither the owner of the task's project nor an admin is rejected with
\* not-authorized and leaves the assignee of the task as it was.
C15_OnlyOwnerOrAdminAssigns ==
  [][ \A c \in Users, t \in TaskIds, u \in AssignInputs :
        (TasksAssign(c, t, u)
           /\ t \in DOMAIN tasks
           /\ ~IsAdmin(c)
           /\ ~OwnsProjectOf(c, tasks[t]))
          => /\ last'.error = NotAuthorized
             /\ tasks'[t].assignedToId = tasks[t].assignedToId ]_vars

\* C16: a tasks.logTime call with positive hours on an existing task by a
\* caller listed in teamMemberIds of the task's project succeeds, assignee or
\* not; the call ends in not-authorized only when the caller is neither the
\* assignee nor the owner or a team member of the project.
C16_TeamMemberLogsTime ==
  [][ \A c \in Users, t \in TaskIds, h \in HoursInputs :
        (TasksLogTime(c, t, h) /\ t \in DOMAIN tasks /\ h > 0)
          => /\ (/\ tasks[t].projectId \in DOMAIN projects
                 /\ \E i \in DOMAIN projects[tasks[t].projectId].teamMemberIds :
                      projects[tasks[t].projectId].teamMemberIds[i] = c)
                  => last'.error = NoError
             /\ last'.error = NotAuthorized
                  => (tasks[t].assignedToId # c /\ ~OnTeamOf(tasks[t].projectId, c)) ]_vars

\* C17: aggregations.getTeamPerformance returns data only to a manager or an
\* admin; every other logged-in caller, with role member or with no role at all,
\* is rejected with not-authorized and gets no data.
C17_OnlyManagerOrAdminSeesPerformance ==
  [][\A c \in Users, p \in PerformanceInputs :
       AggregationsGetTeamPerformance(c, p) =>
         IF Role(c) \in {"manager", "admin"}
           THEN last'.error = NoError /\ IsSome(last'.result)
           ELSE last'.error = NotAuthorized /\ last'.result = None]_vars

IsManagerOrAdmin(c) == c # Null /\ Role(c) \in {"manager", "admin"}

\* C18: projects.insert creates a project only for a caller whose role is
\* manager or admin; for a caller with role member or with no role it answers
\* not-authorized and adds neither a project nor an activity-log entry.
C18_OnlyManagerOrAdminCreatesProject ==
  [][\A c \in Callers, data \in ProjectInsertInputs :
       ProjectsInsert(c, data) =>
         /\ ~IsManagerOrAdmin(c) =>
               /\ last'.error = NotAuthorized
               /\ projects' = projects
               /\ activityLogs' = activityLogs
         /\ DOMAIN projects' # DOMAIN projects => IsManagerOrAdmin(c)]_vars

\* gina, who has no role, asked for a well-formed project and was turned away
C18_Witness ==
  /\ last.method = "projects.insert"
  /\ last.userId = Gina
  /\ last.args[1].validName
  /\ last.args[1].teamMemberIds = << Emma >>
  /\ last.error = NotAuthorized
  /\ DOMAIN projects = {1, 2}
  /\ activityLogs = SeedLogs

Abs(x) == IF x < 0 THEN -x ELSE x

HasAccess(c, pid) == c # Null /\ (OnTeamOf(pid, c) \/ IsAdmin(c))

\* C19: the completionRate that aggregations.getProjectStatistics(p) returns is
\* 0 when p has no task and otherwise the hundredth nearest to done / total; the
\* call never fails for a caller with access to p, whatever the tasks of p are,
\* and the rate lies between 0 and 1.  The rate is counted in hundredths.
C19_CompletionRate ==
  [][\A c \in Callers, p \in ProjectIds :
       AggregationsGetProjectStatistics(c, p) =>
         LET total == Cardinality(TasksOf(tasks, p))
             done == Cardinality(DoneTasksOf(tasks, p))
         IN /\ (p \in DOMAIN projects /\ HasAccess(c, p)) => last'.error = NoError
            /\ last'.error = NoError =>
                  /\ IsSome(last'.result)
                  /\ LET rate == Val(last'.result).completionRate
                     IN /\ rate \in 0..100
                        /\ total = 0 => rate = 0
                        /\ total > 0 => 2 * Abs(100 * done - rate * total) <= total]_vars

\* two of the three tasks of project 1 are done: the rate is 0.67
C19_Witness ==
  /\ last.method = "aggregations.getProjectStatistics"
  /\ last.args = << 1 >>
  /\ last.error = NoError
  /\ Cardinality(TasksOf(tasks, 1)) = 3
  /\ Cardinality(DoneTasksOf(tasks, 1)) = 2
  /\ Val(last.result).completionRate = 67
  /\ Val(last.result).totalTasks = 3

ActiveStatuses == Statuses \ {"done"}

\* C20: the result of aggregations.getPriorityDistribution has exactly the nine
\* keys {high, medium, low} x {todo, in_progress, review}; each value is the
\* number of tasks with that priority and status, 0 when there is none; a done
\* task is counted under no key.
C20_NineKeysWithCounts ==
  [][\A c \in Callers :
       (AggregationsGetPriorityDistribution(c) /\ last'.error = NoError) =>
         /\ IsSome(last'.result)
         /\ LET result == Val(last'.result)
            IN /\ DOMAIN result = Priorities
               /\ \A priority \in Priorities :
                    /\ DOMAIN result[priority] = ActiveStatuses
                    /\ \A status \in ActiveStatuses :
                         result[priority][status] =
                           Cardinality({t \in DOMAIN tasks :
                                          /\ tasks[t].priority = priority
                                          /\ tasks[t].status = status})]_vars

\* a done task next to two active ones of different priority and status
C20_Witness ==
  /\ last.method = "aggregations.getPriorityDistribution"
  /\ last.error = NoError
  /\ \E t \in DOMAIN tasks : tasks[t].status = "done" /\ tasks[t].priority = "high"
  /\ Val(last.result)["high"]["todo"] = 1
  /\ Val(last.result)["high"]["in_progress"] = 0
  /\ Val(last.result)["high"]["review"] = 0
  /\ Val(last.result)["low"]["review"] = 1
  /\ Val(last.result)["medium"]["todo"] = 0

\* the positions of the entries a step appends to the activity log
Appended == (Len(activityLogs) + 1)..Len(activityLogs')

CompleteEntries(taskId) ==
  {i \in Appended : /\ activityLogs'[i].action = "complete"
                    /\ activityLogs'[i].entityType = "task"
                    /\ activityLogs'[i].entityId = taskId}

\* C24: a successful tasks.update that moves a task from another status to
\* 'done' appends exactly one 'complete' entry for the task, next to the 'update'
\* entry; one that sets 'done' on a task already done appends no 'complete' entry.
C24_CompleteLoggedOnceOnBecomingDone ==
  [][\A c \in Callers, t \in TaskIds, u \in TaskUpdateInputs :
       (TasksUpdate(c, t, u) /\ last'.error = NoError /\ u.status = Some("done")) =>
         IF tasks[t].status # "done"
           THEN /\ Cardinality(CompleteEntries(t)) = 1
                /\ \E i \in Appended : /\ activityLogs'[i].action = "update"
                                       /\ activityLogs'[i].entityId = t
                                       /\ activityLogs'[i].entityType = "task"
           ELSE CompleteEntries(t) = {}]_vars

\* david has just moved task 1, his own, from in_progress to done
C24_Witness ==
  /\ last.method = "tasks.update"
  /\ last.userId = David
  /\ last.args[1] = 1
  /\ last.args[2].status = Some("done")
  /\ last.error = NoError
  /\ tasks[1].status = "done"
  /\ activityLogs = SeedLogs \o << LogEntry(David, "complete", "task", 1),
                                   LogEntry(David, "update", "task", 1) >>

MutationMethods ==
  {"projects.insert", "projects.update", "projects.remove", "projects.addTeamMember",
   "projects.removeTeamMember", "tasks.insert", "tasks.update", "tasks.remove",
   "tasks.assign", "tasks.logTime"}

\* the entity a call mutates: the document it creates, or its first argument
MutatedEntity ==
  IF last'.method = "projects.insert" THEN nextProjectId
  ELSE IF last'.method = "tasks.insert" THEN nextTaskId
  ELSE last'.args[1]

\* C25: every successful projects.* or tasks.* mutation call, whatever arguments
\* the method accepts (an empty updates object included), appends at least one
\* activity-log entry whose userId is the caller and whose entityId is the
\* mutated entity.
C25_EveryMutationIsLogged ==
  [][(last = Idle /\ last'.method \in MutationMethods /\ last'.error = NoError) =>
       \E i \in Appended : /\ activityLogs'[i].userId = last'.userId
                           /\ activityLogs'[i].entityId = MutatedEntity]_vars

\* C26: in every reachable state the estimatedHours and the actualHours of
\* every task, where set, are not negative.
C26_HoursAreNotNegative ==
  \A t \in DOMAIN tasks :
    /\ IsSome(tasks[t].estimatedHours) => Val(tasks[t].estimatedHours) >= 0
    /\ IsSome(tasks[t].actualHours) => Val(tasks[t].actualHours) >= 0

AssignedTo(u) == {t \in DOMAIN tasks : tasks[t].assignedToId = u}

\* C21: for a user with no assigned task aggregations.getUserStatistics returns
\* totalTasksAssigned 0, every key of tasksByStatus and of tasksByPriority with
\* value 0, overdueCount 0 and averageCompletionDays 0; averageCompletionDays is 0
\* whenever the user has no done task with completedAt set.
C21_UserWithoutTasksGetsZeros ==
  [][\A c \in Users :
       AggregationsGetUserStatistics(c) =>
         /\ last'.error = NoError
         /\ IsSome(last'.result)
         /\ LET result == Val(last'.result)
            IN /\ DOMAIN result.tasksByStatus = {"todo", "in_progress", "review", "done"}
               /\ DOMAIN result.tasksByPriority = {"low", "medium", "high"}
               /\ AssignedTo(c) = {} =>
                    /\ result.totalTasksAssigned = 0
                    /\ \A s \in DOMAIN result.tasksByStatus : result.tasksByStatus[s] = 0
                    /\ \A p \in DOMAIN result.tasksByPriority : result.tasksByPriority[p] = 0
                    /\ result.overdueCount = 0
                    /\ result.averageCompletionDays = 0
               /\ (\A t \in AssignedTo(c) : ~(tasks[t].status = "done" /\ tasks[t].completedAt))
                    => result.averageCompletionDays = 0]_vars

\* emma has no task, while david has a done one and an overdue one
C21_Witness ==
  /\ last.method = "aggregations.getUserStatistics"
  /\ last.userId = Emma
  /\ last.error = NoError
  /\ AssignedTo(Emma) = {}
  /\ \E t \in AssignedTo(David) : tasks[t].status = "done" /\ tasks[t].completedAt
  /\ \E t \in AssignedTo(David) : tasks[t].status # "done" /\ tasks[t].overdue
  /\ Val(last.result).totalTasksAssigned = 0
  /\ Val(last.result).averageCompletionDays = 0

\* the entries of the log written by user u, in their order
RECURSIVE OwnEntries(_, _)
OwnEntries(log, u) ==
  IF log = << >> THEN << >>
  ELSE IF Head(log).userId = u THEN << Head(log) >> \o OwnEntries(Tail(log), u)
  ELSE OwnEntries(Tail(log), u)

\* C29: what aggregations.getActivityTimeline returns to a caller who is not an
\* admin does not depend on the entries of other users: it is what the same
\* request returns on the caller's own entries alone, whatever the userId,
\* entityId and days options are.
C29_TimelineShowsOwnActivityOnly ==
  [][\A c \in Users, options \in TimelineInputs :
       (AggregationsGetActivityTimeline(c, options)
          /\ Role(c) # "admin" /\ last'.error = NoError) =>
         Val(last'.result) =
           getActivityTimeline(OwnEntries(activityLogs, c), options)]_vars

AllReturned == calls # << >> /\ \A cl \in Clients : calls[cl].pc = "done"

Succeeded(cl) == calls[cl].pc = "done" /\ calls[cl].error = NoError

TaskMutations == {"tasks.insert", "tasks.update", "tasks.remove"}

\* C22: when two task mutations on the same project run concurrently, their
\* database operations interleaved in any order, then once both calls have
\* returned the counters of the project equal the number of its tasks and of
\* its done tasks.
C22_ConcurrentRecountConverges ==
  (/\ AllReturned
   /\ \A cl \in Clients : calls[cl].method \in TaskMutations /\ Succeeded(cl)
   /\ CountedProject(calls[1]) = CountedProject(calls[2]))
    => CountersMatch(projects, tasks, CountedProject(calls[1]))

\* the place of a kind of write in the documented order
Rank(op) == CASE op = "task" -> 1 [] op = "counters" -> 2 [] op = "log" -> 3

\* C23: in every successful tasks.insert, tasks.update and tasks.remove call the
\* task document is written before the counters are recomputed, and the counters
\* are recomputed before any activity-log entry of the call is appended.
C23_WriteThenRecountThenLog ==
  \A cl \in DOMAIN calls :
    (calls[cl].method \in TaskMutations /\ Succeeded(cl)) =>
      \A i, j \in DOMAIN calls[cl].ops :
        i < j => Rank(calls[cl].ops[i]) <= Rank(calls[cl].ops[j])

\* C27: whether projects.remove(P, hard) and tasks.insert into P run one after
\* the other or concurrently, the projectId of every task names an existing
\* project.
C27_NoTaskWithoutProject ==
  \A t \in DOMAIN tasks : tasks[t].projectId \in DOMAIN projects

SetsDone(k) == k.method = "tasks.update" /\ k.args[2].status = Some("done")

SetsNotDone(k) ==
  /\ k.method = "tasks.update"
  /\ IsSome(k.args[2].status)
  /\ Val(k.args[2].status) # "done"

\* C28: when two tasks.update calls on the same task interleave, one setting
\* status 'done' and the other another status, the task that results has
\* completedAt set exactly when its status is 'done'.
C28_CompletedAtIffDoneAfterRace ==
  \A a, b \in DOMAIN calls :
    (/\ AllReturned
     /\ Succeeded(a) /\ Succeeded(b)
     /\ SetsDone(calls[a]) /\ SetsNotDone(calls[b])
     /\ calls[a].args[1] = calls[b].args[1]
     /\ calls[a].args[1] \in DOMAIN tasks)
      => (tasks[calls[a].args[1]].completedAt
            <=> tasks[calls[a].args[1]].status = "done")

LogsTime(cl) == calls[cl].method = "tasks.logTime"

HoursOf(task) == IF IsSome(task.actualHours) THEN Val(task.actualHours) ELSE 0

\* C30: two concurrent tasks.logTime calls on the same task with hours h1 and h2
\* leave its actualHours increased by exactly h1 + h2, a missing actualHours
\* counting as 0: the write of each call adds its hours to the hours the task
\* has at that moment, and no step of either call changes the status, the
\* assignee or completedAt of the task, or the counters of a project.
C30_LoggedTimeIsNeverLost ==
  /\ [][\A cl \in Clients :
          (LogsTime(cl) /\ calls'[cl] # calls[cl]) =>
            /\ projects' = projects
            /\ DOMAIN tasks' = DOMAIN tasks
            /\ \A t \in DOMAIN tasks :
                 /\ tasks'[t].status = tasks[t].status
                 /\ tasks'[t].assignedToId = tasks[t].assignedToId
                 /\ tasks'[t].completedAt = tasks[t].completedAt
                 /\ HoursOf(tasks'[t]) =
                      HoursOf(tasks[t])
                        + (IF WriteTask(cl) /\ t = calls[cl].args[1]
                             THEN calls[cl].args[2] ELSE 0)]_vars
  /\ [](\A a, b \in DOMAIN calls :
          (/\ a # b
           /\ LogsTime(a) /\ LogsTime(b)
           /\ Succeeded(a) /\ Succeeded(b))
            => HoursOf(tasks[1]) - (calls[a].args[2] + calls[b].args[2])
                 \in {0, HoursOf(SeedTasks[1])})

\* bob and david have both logged time on task 1, which had no actualHours,
\* each having read the task before the other wrote
C30_Witness ==
  /\ AllReturned
  /\ LogsTime(1) /\ LogsTime(2)
  /\ Succeeded(1) /\ Succeeded(2)
  /\ calls[1].userId = Bob /\ calls[2].userId = David
  /\ calls[1].args[2] = 1 /\ calls[2].args[2] = 2
  /\ calls[1].task # None /\ Val(calls[1].task).actualHours = None
  /\ calls[2].task # None /\ Val(calls[2].task).actualHours = None
  /\ tasks[1].actualHours = Some(3)
====
